---- MODULE Spec2Model ----
(***************************************************************************)
(* Model of the mflm greeter: the modal input state machine of             *)
(* LoginManager::greeter_loop (src/src/greeter_loop.rs), the construction  *)
(* of the LoginManager (src/src/main.rs) and the calls the loop makes to   *)
(* the greetd client (src/src/greetd.rs) and to the paint routines         *)
(* (src/src/draw.rs).                                                      *)
(*                                                                         *)
(* Strings are sequences of characters, a character is its code point.     *)
(* Option<String> for the forced username is encoded by the empty sequence *)
(* for None: LoginManager::new filters empty strings out, so Some("") never *)
(* occurs.  A read that yields no byte (end of input or a read error) is   *)
(* NoByte.                                                                 *)
(***************************************************************************)
EXTENDS Integers, Sequences, FiniteSets, TLC

VARIABLES
    login_target,       \* settings.login.target after trim/filter ("" = None)
    targets,            \* LoginManager.targets
    forced_username,    \* LoginManager.forced_username (<<>> = None)
    lock_target,        \* LoginManager.lock_target
    mode,               \* LoginManager.mode
    target_index,       \* LoginManager.target_index (0-based)
    should_refresh,     \* LoginManager.should_refresh
    username,           \* greeter_loop local
    password,           \* greeter_loop local
    last_username_len,  \* greeter_loop local
    last_password_len,  \* greeter_loop local
    last_target_index,  \* greeter_loop local
    last_mode,          \* greeter_loop local
    had_failure,        \* greeter_loop local
    pc,                 \* position of the program: "main", "start", "redraw", "read", "done"
    exit,               \* why the loop ended ("running" while it has not)
    inp,                \* the read results consumed by the latest input step
    calls,              \* the greetd calls made by the latest step, in order
    trace,              \* the input steps so far, while they follow a scenario
    painted,            \* the paint calls of the latest redraw phase, in order
    events,             \* what the latest input step did after its reads, in order
    stream_left,        \* the bytes stdin has yet to deliver (Endless: no limit)
    greetd_pc,          \* GreetD::login: the statement the call is at
    service,            \* GreetD::login: the responses the service has yet to send
    wire,               \* GreetD::login: the messages written and read, in order
    login_ret,          \* GreetD::login: the value returned ("none" before)
    screen_size,        \* LoginManager.screen_size
    dimensions,         \* LoginManager.dimensions
    row_h,              \* LoginManager.row_h
    gap_px,             \* LoginManager.gap_px
    layout,             \* the FormLayout form_layout returned ("none" before)
    hex_s,              \* Color::from_hex: the argument s
    hex_ret,            \* Color::from_hex: the value returned ("none" before)
    views,              \* Region Buffer: the live views, outermost first
    written,            \* Region Buffer: the pixels the latest operation wrote
    last_op,            \* Region Buffer: the latest operation and its result
    runs                \* two runs of the password field, side by side

\* the greeter: LoginManager and the locals of greeter_loop
greeter == <<login_target, targets, forced_username, lock_target, mode,
             target_index, should_refresh, username, password,
             last_username_len, last_password_len, last_target_index,
             last_mode, had_failure, pc, exit, inp, calls, trace, painted,
             events, stream_left>>

\* one call of GreetD::login
login_vars == <<greetd_pc, service, wire, login_ret>>

\* one call of form_layout
layout_vars == <<screen_size, dimensions, row_h, gap_px, layout>>

\* one call of Color::from_hex
hex_vars == <<hex_s, hex_ret>>

\* one pixel buffer and its views
region_vars == <<views, written, last_op>>

\* two runs of the loop in EditingPassword
mask_vars == <<runs>>

\* what a step of the greeter leaves alone
units == <<login_vars, layout_vars, hex_vars, region_vars, mask_vars>>

vars == <<greeter, units>>

----------------------------------------------------------------------------
(* Bounds of the model *)

MaxLen == 2
MaxTargets == 2
\* the responses the service sends in one call of login
MaxResponses == 2
\* row height and gap of the form, in pixels
MaxRowH == 2
\* pixels the screen is wider than the two margins
MaxExtra == 3
\* characters of a colour string after its leading '#'
MaxHexLen == 9
\* width and height of the pixel buffer, and how deep its views nest
BufW == 3
BufH == 2
MaxDepth == 2
\* bytes of a finite input stream
MaxStream == 3
\* bytes typed into the password field of each of two runs
MaxTyped == 4

----------------------------------------------------------------------------
(* Constants of the program *)

SelectingSession == "SelectingSession"
EditingUsername == "EditingUsername"
EditingPassword == "EditingPassword"
Mode == {SelectingSession, EditingUsername, EditingPassword}

NoUsername == <<>>
NoTarget == ""
NoByte == -1
\* stdin that never closes
Endless == -1

\* usize::MAX; only compared with buffer lengths, all far below it
UsizeMax == 2147483647

CtrlC == 3
CtrlD == 4
CtrlK == 11
CtrlU == 21
Backspace == 127
Tab == 9
Enter == 13
Esc == 27
LBracket == 91
KeyA == 65
KeyB == 66
KeyC == 67
KeyD == 68
KeyZ == 90

\* the bytes the first arm of each match tests for
ControlBytes == {CtrlU, CtrlK, CtrlC, CtrlD, Backspace, Tab, Enter, Esc}

\* input alphabets of the model
OrdinaryBytes == {97, 233}
EscBytes == {LBracket, KeyA, KeyB, KeyC, KeyD, KeyZ, CtrlC, Enter, 97, NoByte}

AllNames == <<"gnome", "sway", "plasma", "i3">>
ForcedNames == {<<97, 108>>}
LoginTargets == {NoTarget, "gnome", "sway", "nomatch"}
LoginResults == {"Ok", "AuthFailed", "Ipc"}
CancelResults == {"Ok", "Ipc"}

\* the escape sequences of the arrow keys
ArrowUp == <<Esc, LBracket, KeyA>>
ArrowDown == <<Esc, LBracket, KeyB>>
ArrowRight == <<Esc, LBracket, KeyC>>
ArrowLeft == <<Esc, LBracket, KeyD>>

----------------------------------------------------------------------------
(* Pure helpers *)

\* char::len_utf8 for the chars `b as char` can produce (U+0000..U+00FF)
Utf8Len(c) == IF c < 128 THEN 1 ELSE 2

\* String::len: length in bytes of the UTF-8 encoding
RECURSIVE StrLen(_)
StrLen(s) == IF s = <<>> THEN 0 ELSE Utf8Len(Head(s)) + StrLen(Tail(s))

\* variant of Pop: the first char removed instead of the last
Pop_first(s) == IF s = <<>> THEN s ELSE Tail(s)

\* String::pop: removes the last char, if any
Pop(s) == IF s = <<>> THEN s ELSE SubSeq(s, 1, Len(s) - 1)

\* targets.iter().position(|t| t.name == forced): 0-based, -1 for None
Position(tgts, name) ==
    IF \E i \in 1..Len(tgts) : tgts[i].name = name
    THEN (CHOOSE i \in 1..Len(tgts) :
            /\ tgts[i].name = name
            /\ \A j \in 1..(i - 1) : tgts[j].name # name) - 1
    ELSE -1

DiscoveredTargets(n) == [i \in 1..n |-> [name |-> AllNames[i], exec |-> <<AllNames[i]>>]]

----------------------------------------------------------------------------
(* Mode ring *)

mode_allowed(m) ==
    CASE m = SelectingSession -> ~lock_target
      [] m = EditingUsername -> forced_username = NoUsername
      [] m = EditingPassword -> TRUE

RingNext(m) ==
    CASE m = SelectingSession -> EditingUsername
      [] m = EditingUsername -> EditingPassword
      [] m = EditingPassword -> SelectingSession

RingPrev(m) ==
    CASE m = SelectingSession -> EditingPassword
      [] m = EditingUsername -> SelectingSession
      [] m = EditingPassword -> EditingUsername

\* the body of `for _ in 0..3` of next_allowed_mode, n iterations left
RECURSIVE NextWalk(_, _, _)
NextWalk(cur, n, from) ==
    IF n = 0 THEN from
    ELSE LET c == RingNext(cur)
         IN IF mode_allowed(c) THEN c ELSE NextWalk(c, n - 1, from)

RECURSIVE PrevWalk(_, _, _)
PrevWalk(cur, n, from) ==
    IF n = 0 THEN from
    ELSE LET c == RingPrev(cur)
         IN IF mode_allowed(c) THEN c ELSE PrevWalk(c, n - 1, from)

\* variants of next_allowed_mode: without the mode_allowed test; with one
\* iteration of the loop instead of three
next_allowed_mode_unchecked(from) == RingNext(from)

next_allowed_mode_one_step(from) == NextWalk(from, 1, from)

next_allowed_mode(from) == NextWalk(from, 3, from)

\* variant of prev_allowed_mode: the ring walked forward
prev_allowed_mode_forward(from) == NextWalk(from, 3, from)

prev_allowed_mode(from) == PrevWalk(from, 3, from)

\* variant of FirstEditable: the forced username ignored
FirstEditable_unforced == EditingUsername

\* the mode chosen by Enter in SelectingSession and after a failed login
FirstEditable ==
    IF forced_username # NoUsername THEN EditingPassword ELSE EditingUsername

----------------------------------------------------------------------------
(* Scenarios: `trace` follows the input steps from startup on for as long   *)
(* as they are the beginning of one of the scripts, and is Off from the    *)
(* first step on that leaves them.                                         *)

Off == << <<>> >>

Scripts == {<<ArrowRight, ArrowRight>>, <<ArrowUp, ArrowRight, ArrowRight>>}

IsPrefix(p, q) == Len(p) <= Len(q) /\ SubSeq(q, 1, Len(p)) = p

Track(t, bytes) ==
    IF t # Off /\ \E q \in Scripts : IsPrefix(Append(t, bytes), q)
    THEN Append(t, bytes)
    ELSE Off

----------------------------------------------------------------------------
(* Construction: LoginManager::new, and the locals of greeter_loop.  With   *)
(* no target discovered main returns before LoginManager::new: the fields  *)
(* then hold what new would compute and no step reads them.                *)

NewTargetIndex(tgts, lt) ==
    IF lt # NoTarget /\ Position(tgts, lt) >= 0 THEN Position(tgts, lt) ELSE 0

\* variant of NewLockTarget: locked by any configured name
NewLockTarget_any(tgts, lt) == lt # NoTarget

NewLockTarget(tgts, lt) == lt # NoTarget /\ Position(tgts, lt) >= 0

NewMode(fu) == IF fu # NoUsername THEN EditingPassword ELSE EditingUsername

GreeterInit ==
    /\ \E n \in 0..MaxTargets : targets = DiscoveredTargets(n)
    /\ login_target \in LoginTargets
    /\ forced_username \in {NoUsername} \cup ForcedNames
    /\ lock_target = NewLockTarget(targets, login_target)
    /\ target_index = NewTargetIndex(targets, login_target)
    /\ mode = NewMode(forced_username)
    /\ should_refresh = FALSE
    /\ username = forced_username
    /\ password = <<>>
    /\ last_username_len = UsizeMax
    /\ last_password_len = StrLen(password)
    /\ last_target_index = target_index
    /\ last_mode = mode
    /\ had_failure = FALSE
    /\ pc = "main"
    /\ exit = "running"
    /\ inp = <<>>
    /\ calls = <<>>
    /\ trace = <<>>
    /\ painted = <<>>
    /\ events = <<>>
    /\ stream_left \in {Endless} \cup 0..MaxStream

----------------------------------------------------------------------------
(* Startup: main, after LoginManager::new *)

cfg == <<login_target, targets, forced_username, lock_target>>
snapshot == <<last_username_len, last_password_len, last_target_index, last_mode>>

\* variant of TargetsFound: the test for an empty list dropped
TargetsFound_unchecked == TRUE

\* main: !targets.is_empty()
TargetsFound == targets # <<>>

\* main: return if no target was found; else lm.clear();
\* lm.draw_bg(neutral); lm.refresh(); lm.greeter_loop()
MainDraw ==
    /\ pc = "main"
    /\ UNCHANGED units
    /\ IF ~TargetsFound
       THEN /\ pc' = "done"
            /\ exit' = "no_targets"
            /\ should_refresh' = should_refresh
       ELSE \E bg_ok \in BOOLEAN :
              IF bg_ok
              THEN /\ should_refresh' = FALSE
                   /\ pc' = "start"
                   /\ exit' = exit
              ELSE /\ should_refresh' = TRUE
                   /\ pc' = "done"
                   /\ exit' = "startup"
    /\ UNCHANGED <<cfg, snapshot, mode, target_index, username, password,
                   had_failure, inp, calls, trace, painted, events, stream_left>>

\* greeter_loop, before `loop`: the first draw_target (the locals of the
\* loop have their initial values from Init on)
Start ==
    /\ pc = "start"
    /\ UNCHANGED units
    /\ IF lock_target
       THEN /\ pc' = "redraw"
            /\ UNCHANGED <<exit, should_refresh>>
       ELSE \E target_ok \in BOOLEAN :
              IF target_ok
              THEN /\ should_refresh' = TRUE
                   /\ pc' = "redraw"
                   /\ exit' = exit
              ELSE /\ should_refresh' = should_refresh
                   /\ pc' = "done"
                   /\ exit' = "paint"
    /\ UNCHANGED <<cfg, snapshot, mode, target_index, username, password,
                   had_failure, inp, calls, trace, painted, events, stream_left>>

----------------------------------------------------------------------------
(* The redraw phase at the top of `loop` *)

\* variant of FullRepaint: draw_bg alone
FullRepaint_bg_only(blk) == <<[op |-> "bg", clear |-> TRUE, blk |-> blk]>>

\* the rows a full repaint paints after draw_bg, each cleared (redraw = true)
FullRepaint(blk) ==
    <<[op |-> "bg", clear |-> TRUE, blk |-> blk]>>
    \o (IF ~lock_target
        THEN <<[op |-> "target", clear |-> TRUE, blk |-> blk]>> ELSE <<>>)
    \o (IF forced_username = NoUsername
        THEN <<[op |-> "username", clear |-> TRUE, blk |-> blk]>> ELSE <<>>)
    \o <<[op |-> "password", clear |-> TRUE, blk |-> blk]>>

\* variant of Shrunk: the row always cleared
Shrunk_always(len, last) == TRUE

\* the `redraw` argument of draw_username / draw_password
Shrunk(len, last) == len < last

\* the paint calls the redraw phase makes when none of them fails, in order;
\* blk is the `if` block of the phase the call belongs to
RedrawPlan ==
    (IF forced_username = NoUsername /\ StrLen(username) # last_username_len
     THEN <<[op |-> "username",
             clear |-> Shrunk(StrLen(username), last_username_len), blk |-> 1]>>
     ELSE <<>>)
    \o (IF StrLen(password) # last_password_len
        THEN <<[op |-> "password",
                clear |-> Shrunk(StrLen(password), last_password_len), blk |-> 2]>>
        ELSE <<>>)
    \o (IF ~lock_target /\ last_target_index # target_index
        THEN <<[op |-> "target", clear |-> TRUE, blk |-> 3]>>
        ELSE <<>>)
    \o (IF last_mode # mode THEN FullRepaint(4) ELSE <<>>)
    \o (IF had_failure THEN FullRepaint(5) ELSE <<>>)

\* variant of BlockDone: only the username block records what it rendered
BlockDone_username_only(plan, blk, n) ==
    /\ blk = 1
    /\ \E i \in 1..Len(plan) : plan[i].blk = blk
    /\ \A i \in 1..Len(plan) : plan[i].blk = blk => i <= n

\* block blk of the plan was entered and all its paints are among the first n
BlockDone(plan, blk, n) ==
    /\ \E i \in 1..Len(plan) : plan[i].blk = blk
    /\ \A i \in 1..Len(plan) : plan[i].blk = blk => i <= n

\* variant of PaintFailed: the Err of a paint call dropped
PaintFailed_ignored(plan, n) == FALSE

\* `if let Err(e) = self.draw_...` of paint n+1
PaintFailed(plan, n) == n < Len(plan)

\* the paint calls made: the first n of the plan, which returned Ok, and
\* paint n+1, if there is one, which returned Err
Painted(plan, n) ==
    [i \in 1..(IF n < Len(plan) THEN n + 1 ELSE n) |->
        [op |-> plan[i].op, clear |-> plan[i].clear, blk |-> plan[i].blk,
         ok |-> i <= n]]

\* the first n paints of the plan succeed; paint n+1, if there is one, fails
\* and the loop returns
Redraw ==
    /\ pc = "redraw"
    /\ UNCHANGED units
    /\ LET plan == RedrawPlan
       IN \E n \in 0..Len(plan) :
            /\ last_username_len' =
                 IF BlockDone(plan, 1, n) THEN StrLen(username) ELSE last_username_len
            /\ last_password_len' =
                 IF BlockDone(plan, 2, n) THEN StrLen(password) ELSE last_password_len
            /\ last_target_index' =
                 IF BlockDone(plan, 3, n) THEN target_index ELSE last_target_index
            /\ last_mode' = IF BlockDone(plan, 4, n) THEN mode ELSE last_mode
            /\ had_failure' = IF BlockDone(plan, 5, n) THEN FALSE ELSE had_failure
            /\ should_refresh' = (should_refresh \/ n >= 1)
            /\ painted' = Painted(plan, n)
            /\ IF PaintFailed(plan, n)
               THEN pc' = "done" /\ exit' = "paint"
               ELSE pc' = "read" /\ exit' = exit
    /\ inp' = <<>>
    /\ calls' = <<>>
    /\ events' = <<>>
    /\ UNCHANGED <<cfg, mode, target_index, username, password, trace, stream_left>>

----------------------------------------------------------------------------
(* The input step: one byte read and handled, then refresh() *)

\* read_byte(): the bytes a step reads are taken from stdin; a read that
\* yields None takes nothing
Taken(bytes) == Cardinality({i \in 1..Len(bytes) : bytes[i] # NoByte})

ReadBytes(bytes) ==
    /\ stream_left = Endless \/ Taken(bytes) <= stream_left
    /\ stream_left' =
         IF stream_left = Endless THEN stream_left ELSE stream_left - Taken(bytes)
    /\ inp' = bytes
    /\ trace' = Track(trace, bytes)

\* variant of Refresh: the screen is pushed whether or not a paint asked for it
Refresh_always(requested) == <<"commit">>

\* refresh(): put_var_screeninfo if should_refresh is set
Refresh(requested) == IF requested THEN <<"commit">> ELSE <<>>

\* the end of an iteration that goes on, after the paints and greetd calls
\* done: refresh(), back to the top of `loop`
ContinueAfter(bytes, done) ==
    /\ ReadBytes(bytes)
    /\ painted' = <<>>
    /\ events' = done \o Refresh(should_refresh \/ \E i \in 1..Len(done) : done[i] = "paint")
    /\ should_refresh' = FALSE
    /\ pc' = "redraw"
    /\ exit' = exit

\* the end of an iteration that painted nothing and called nothing
Continue(bytes) == ContinueAfter(bytes, <<>>)

\* a `return` out of the loop, after the paints and greetd calls done
ReturnAfter(bytes, why, done) ==
    /\ ReadBytes(bytes)
    /\ painted' = <<>>
    /\ events' = done
    /\ pc' = "done"
    /\ exit' = why

Return(bytes, why) == ReturnAfter(bytes, why, <<>>)

LoginCall(id, secret, argv, res) ==
    [op |-> "login", identity |-> id, secret |-> secret, argv |-> argv, res |-> res]

CancelCall(res) ==
    [op |-> "cancel", identity |-> <<>>, secret |-> <<>>, argv |-> <<>>, res |-> res]

\* variant of StdinClosed: the None is taken for a byte that does nothing
StdinClosed_ignored ==
    /\ pc = "read"
    /\ UNCHANGED units
    /\ Continue(<<NoByte>>)
    /\ calls' = <<>>
    /\ UNCHANGED <<cfg, snapshot, mode, target_index, username, password,
                   had_failure>>

\* read_byte() yields None at the top of the loop
StdinClosed ==
    /\ pc = "read"
    /\ UNCHANGED units
    /\ Return(<<NoByte>>, "stdin")
    /\ calls' = <<>>
    /\ UNCHANGED <<cfg, snapshot, mode, target_index, username, password,
                   had_failure, should_refresh>>

\* variant of ClearedUsername: username.clear() dropped
ClearedUsername_kept == username

\* '\x15' | '\x0B'
ClearedUsername == IF forced_username = NoUsername THEN <<>> ELSE username

ClearKey ==
    /\ pc = "read"
    /\ UNCHANGED units
    /\ \E b \in {CtrlU, CtrlK} : Continue(<<b>>)
    /\ username' = IF mode = EditingUsername THEN ClearedUsername ELSE username
    /\ password' = IF mode = EditingPassword THEN <<>> ELSE password
    /\ calls' = <<>>
    /\ UNCHANGED <<cfg, snapshot, mode, target_index, had_failure>>

\* variant of AbortCalls: no cancel on abort
AbortCalls_none(cres) == <<>>

\* '\x03' | '\x04'
AbortCalls(cres) == <<CancelCall(cres)>>

AbortKey ==
    /\ pc = "read"
    /\ UNCHANGED units
    /\ \E b \in {CtrlC, CtrlD} : ReturnAfter(<<b>>, "abort", <<"cancel">>)
    /\ username' = <<>>
    /\ password' = <<>>
    /\ \E cres \in CancelResults : calls' = AbortCalls(cres)
    /\ UNCHANGED <<cfg, snapshot, mode, target_index, had_failure, should_refresh>>

\* '\x7F'
BackspaceKey ==
    /\ pc = "read"
    /\ UNCHANGED units
    /\ Continue(<<Backspace>>)
    /\ username' = IF mode = EditingUsername /\ forced_username = NoUsername
                   THEN Pop(username) ELSE username
    /\ password' = IF mode = EditingPassword THEN Pop(password) ELSE password
    /\ calls' = <<>>
    /\ UNCHANGED <<cfg, snapshot, mode, target_index, had_failure>>

goto_next_mode == mode' = next_allowed_mode(mode)

goto_prev_mode == mode' = prev_allowed_mode(mode)

\* '\t'
TabKey ==
    /\ pc = "read"
    /\ UNCHANGED units
    /\ Continue(<<Tab>>)
    /\ goto_next_mode
    /\ calls' = <<>>
    /\ UNCHANGED <<cfg, snapshot, target_index, username, password, had_failure>>

\* any other first byte
PushUsername(v) ==
    IF mode = EditingUsername /\ forced_username = NoUsername
    THEN Append(username, v) ELSE username

\* variant of PushPassword: the test of the mode dropped
PushPassword_any_mode(v) == Append(password, v)

PushPassword(v) == IF mode = EditingPassword THEN Append(password, v) ELSE password

OrdinaryKey ==
    /\ pc = "read"
    /\ UNCHANGED units
    /\ \E v \in OrdinaryBytes :
         /\ v \notin ControlBytes
         /\ Continue(<<v>>)
         /\ username' = PushUsername(v)
         /\ password' = PushPassword(v)
         /\ Len(username') <= MaxLen \/ username' = username
         /\ Len(password') <= MaxLen
    /\ calls' = <<>>
    /\ UNCHANGED <<cfg, snapshot, mode, target_index, had_failure>>

----------------------------------------------------------------------------
(* '\r' *)

\* Enter in SelectingSession
EnterSelecting ==
    /\ mode = SelectingSession
    /\ mode' = FirstEditable
    /\ Continue(<<Enter>>)
    /\ calls' = <<>>
    /\ UNCHANGED <<cfg, snapshot, target_index, username, password, had_failure>>

\* variant of SubmitUsernameMode: the emptiness test dropped
SubmitUsernameMode_always == EditingPassword

\* Enter in EditingUsername
SubmitUsernameMode ==
    IF forced_username = NoUsername /\ username # <<>> THEN EditingPassword ELSE mode

EnterUsername ==
    /\ mode = EditingUsername
    /\ mode' = SubmitUsernameMode
    /\ Continue(<<Enter>>)
    /\ calls' = <<>>
    /\ UNCHANGED <<cfg, snapshot, target_index, username, password, had_failure>>

\* Enter in EditingPassword, password.is_empty()
EmptyPasswordMode == IF forced_username = NoUsername THEN EditingUsername ELSE mode

\* variant of EmptyPasswordUsername: username.clear() dropped
EmptyPasswordUsername_kept == username

EmptyPasswordUsername == IF forced_username = NoUsername THEN <<>> ELSE username

EnterEmptyPassword ==
    /\ mode = EditingPassword
    /\ password = <<>>
    /\ username' = EmptyPasswordUsername
    /\ mode' = EmptyPasswordMode
    /\ Continue(<<Enter>>)
    /\ calls' = <<>>
    /\ UNCHANGED <<cfg, snapshot, target_index, password, had_failure>>

\* the arguments of self.greetd.login(...)
LoginIdentity == IF forced_username # NoUsername THEN forced_username ELSE username

\* variant of LoginSecret: the buffer read after std::mem::take emptied it
LoginSecret_taken == <<>>

LoginSecret == password

\* variant of LoginArgv: the first target instead of the selected one
LoginArgv_first == targets[1].exec

LoginArgv == targets[target_index + 1].exec

\* variant of UsernameAfterLogin: the buffer kept
UsernameAfterLogin_kept == username

\* `username` after the call
UsernameAfterLogin ==
    IF forced_username = NoUsername THEN <<>> ELSE forced_username

\* variant of FailureCalls: no cancel after the failure
FailureCalls_no_cancel(res, cres) ==
    <<LoginCall(LoginIdentity, LoginSecret, LoginArgv, res)>>

\* the greetd calls of an attempt whose error repaint succeeded
FailureCalls(res, cres) ==
    <<LoginCall(LoginIdentity, LoginSecret, LoginArgv, res), CancelCall(cres)>>

\* the greetd calls of an attempt that returned Ok
SuccessCalls(res) == <<LoginCall(LoginIdentity, LoginSecret, LoginArgv, res)>>

\* variant of LoginOk: an IPC error taken for Ok
LoginOk_or_ipc(res) == res \in {"Ok", "Ipc"}

\* match res { Ok(_) => ..., Err(e) => ... }
LoginOk(res) == res = "Ok"

\* variant of AfterSuccess: the loop goes on
AfterSuccess_continue(bytes) ==
    /\ ReadBytes(bytes)
    /\ painted' = <<>>
    /\ events' = <<"paint", "login">>
    /\ pc' = "redraw"
    /\ exit' = exit

\* the program position after a successful login
AfterSuccess(bytes) == ReturnAfter(bytes, "login_ok", <<"paint", "login">>)

\* Enter in EditingPassword, password not empty: the login attempt
EnterLogin ==
    /\ mode = EditingPassword
    /\ password # <<>>
    /\ \E busy_ok \in BOOLEAN :
         IF ~busy_ok
         THEN \* draw_bg(selected) failed: return before the call
              /\ ReturnAfter(<<Enter>>, "paint", <<"paint_err">>)
              /\ calls' = <<>>
              /\ UNCHANGED <<mode, username, password, had_failure, should_refresh>>
         ELSE \E res \in LoginResults :
              /\ username' = UsernameAfterLogin
              /\ password' = <<>>
              /\ IF LoginOk(res)
                 THEN /\ AfterSuccess(<<Enter>>)
                      /\ should_refresh' = TRUE
                      /\ calls' = SuccessCalls(res)
                      /\ UNCHANGED <<mode, had_failure>>
                 ELSE \E error_ok \in BOOLEAN :
                      IF ~error_ok
                      THEN \* draw_bg(error) failed: return
                           /\ ReturnAfter(<<Enter>>, "paint",
                                          <<"paint", "login", "paint_err">>)
                           /\ should_refresh' = TRUE
                           /\ calls' = SuccessCalls(res)
                           /\ UNCHANGED <<mode, had_failure>>
                      ELSE /\ mode' = FirstEditable
                           /\ \E cres \in CancelResults :
                                calls' = FailureCalls(res, cres)
                           /\ had_failure' = TRUE
                           /\ ContinueAfter(<<Enter>>,
                                            <<"paint", "login", "paint", "cancel">>)
    /\ UNCHANGED <<cfg, snapshot, target_index>>

EnterKey ==
    /\ pc = "read"
    /\ UNCHANGED units
    /\ \/ EnterSelecting
       \/ EnterUsername
       \/ EnterEmptyPassword
       \/ EnterLogin

----------------------------------------------------------------------------
(* '\x1b': two more reads *)

\* variant of NextTarget: the index not advanced
NextTarget_stuck == target_index

NextTarget == (target_index + 1) % Len(targets)

PrevTarget == (IF target_index = 0 THEN Len(targets) ELSE target_index) - 1

\* variant of ArrowMode: every third byte but 'A' cycles forward
ArrowMode_default_next(b3) ==
    CASE b3 = KeyA -> prev_allowed_mode(mode)
      [] OTHER -> next_allowed_mode(mode)

\* the mode after ESC [ b3
ArrowMode(b3) ==
    CASE b3 = KeyA -> prev_allowed_mode(mode)
      [] b3 = KeyB -> next_allowed_mode(mode)
      [] OTHER -> mode

\* variant of ArrowTarget: the test of the mode and of the lock dropped
ArrowTarget_any_mode(b3) ==
    CASE b3 = KeyC -> NextTarget
      [] b3 = KeyD -> PrevTarget
      [] OTHER -> target_index

\* the target index after ESC [ b3
ArrowTarget(b3) ==
    IF mode = SelectingSession /\ ~lock_target
    THEN CASE b3 = KeyC -> NextTarget
           [] b3 = KeyD -> PrevTarget
           [] OTHER -> target_index
    ELSE target_index

EscapeKey ==
    /\ pc = "read"
    /\ UNCHANGED units
    /\ \E b2 \in EscBytes :
         IF b2 = LBracket
         THEN \E b3 \in EscBytes :
                /\ mode' = ArrowMode(b3)
                /\ target_index' = ArrowTarget(b3)
                /\ Continue(<<Esc, b2, b3>>)
         ELSE /\ Continue(<<Esc, b2>>)
              /\ UNCHANGED <<mode, target_index>>
    /\ calls' = <<>>
    /\ UNCHANGED <<cfg, snapshot, username, password, had_failure>>

----------------------------------------------------------------------------
(* GreetD::login (src/src/greetd.rs): one call, statement by statement.    *)
(* The service is the sequence of responses it will send; a read with no   *)
(* response left fails, a write may fail; both return GreetDError::Ipc.    *)

\* greetd_ipc::Response: Success, Error, AuthMessage of each AuthMessageType
AuthPrompts == {"AuthSecret", "AuthVisible", "AuthInfo", "AuthError"}
Responses == {"Success", "Error"} \cup AuthPrompts

RECURSIVE SeqsUpTo(_, _)
SeqsUpTo(S, n) ==
    IF n = 0 THEN {<<>>}
    ELSE LET shorter == SeqsUpTo(S, n - 1)
         IN shorter \cup {Append(q, x) : q \in shorter, x \in S}

Wrote(msg) == [dir |-> "write", msg |-> msg]
Got(msg) == [dir |-> "read", msg |-> msg]

LoginIdle ==
    /\ greetd_pc = "idle"
    /\ service = <<>>
    /\ wire = <<>>
    /\ login_ret = "none"

\* the call is entered; the service may answer in any way
LoginEntered ==
    /\ greetd_pc = "create_session"
    /\ service \in SeqsUpTo(Responses, MaxResponses)
    /\ wire = <<>>
    /\ login_ret = "none"

\* `return` (or `?`) out of login
LoginReturn(value) ==
    /\ greetd_pc' = "returned"
    /\ login_ret' = value

\* Request::...write_to(&mut self.stream).map_err(GreetDError::ipc)?
WriteRequest(msg, then) ==
    /\ \E ok \in BOOLEAN :
         IF ok
         THEN /\ wire' = Append(wire, Wrote(msg))
              /\ greetd_pc' = then
              /\ login_ret' = login_ret
         ELSE /\ wire' = wire
              /\ LoginReturn("Ipc")
    /\ service' = service

\* the value login returns on the first response, "none" when it goes on
FirstResponseResult(r) ==
    CASE r = "AuthSecret" -> "none"
      [] r \in AuthPrompts \ {"AuthSecret"} -> "AuthFailed"
      [] r = "Success" -> "none"
      [] OTHER -> "AuthFailed"

\* the value login returns on the response read after StartSession
SecondResponseResult(branch, r) ==
    IF branch = "second_response_secret"
    THEN (IF r = "Success" THEN "Ok" ELSE "AuthFailed")
    ELSE "Ok"

CreateSession ==
    /\ greetd_pc = "create_session"
    /\ WriteRequest("CreateSession", "post_auth")
    /\ UNCHANGED <<greeter, layout_vars, hex_vars, region_vars, mask_vars>>

PostAuthMessageResponse ==
    /\ greetd_pc = "post_auth"
    /\ WriteRequest("PostAuthMessageResponse", "first_response")
    /\ UNCHANGED <<greeter, layout_vars, hex_vars, region_vars, mask_vars>>

\* let response = Response::read_from(..)?; match response { ... }
FirstResponse ==
    /\ greetd_pc = "first_response"
    /\ IF service = <<>>
       THEN /\ LoginReturn("Ipc")
            /\ UNCHANGED <<service, wire>>
       ELSE LET r == Head(service)
            IN /\ service' = Tail(service)
               /\ wire' = Append(wire, Got(r))
               /\ IF FirstResponseResult(r) = "none"
                  THEN /\ greetd_pc' = IF r = "AuthSecret"
                                       THEN "start_session_secret"
                                       ELSE "start_session_success"
                       /\ login_ret' = login_ret
                  ELSE LoginReturn(FirstResponseResult(r))
    /\ UNCHANGED <<greeter, layout_vars, hex_vars, region_vars, mask_vars>>

\* Request::StartSession { cmd }, in either arm
StartSession ==
    /\ greetd_pc \in {"start_session_secret", "start_session_success"}
    /\ WriteRequest("StartSession",
                    IF greetd_pc = "start_session_secret"
                    THEN "second_response_secret"
                    ELSE "second_response_success")
    /\ UNCHANGED <<greeter, layout_vars, hex_vars, region_vars, mask_vars>>

\* the read after StartSession, in either arm
SecondResponse ==
    /\ greetd_pc \in {"second_response_secret", "second_response_success"}
    /\ IF service = <<>>
       THEN /\ LoginReturn("Ipc")
            /\ UNCHANGED <<service, wire>>
       ELSE /\ service' = Tail(service)
            /\ wire' = Append(wire, Got(Head(service)))
            /\ LoginReturn(SecondResponseResult(greetd_pc, Head(service)))
    /\ UNCHANGED <<greeter, layout_vars, hex_vars, region_vars, mask_vars>>

NextLogin ==
    \/ CreateSession
    \/ PostAuthMessageResponse
    \/ FirstResponse
    \/ StartSession
    \/ SecondResponse

----------------------------------------------------------------------------
(* form_layout (src/src/layout.rs) *)

\* let margin_x = 32
MarginX == 32

\* Option<u32>::None for the y of a hidden row
NoRow == -1

Min(a, b) == IF a < b THEN a ELSE b
Max(a, b) == IF a > b THEN a ELSE b

\* u32::saturating_sub
SatSub(a, b) == IF a > b THEN a - b ELSE 0

\* variant of FormWidth: the screen not considered
FormWidth_unclamped(dim_w, screen_w) == Max(dim_w, 1)

\* max_w and w
FormWidth(dim_w, screen_w) ==
    Max(Min(dim_w, Max(SatSub(screen_w, MarginX * 2), 1)), 1)

\* variant of AfterRow: a hidden row takes its place all the same
AfterRow_always(show, cur_y) == cur_y + (row_h + gap_px)

\* cur_y after a row: cur_y.saturating_add(row_h + gap) if it is shown
AfterRow(show, cur_y) == IF show THEN cur_y + (row_h + gap_px) ELSE cur_y

form_layout ==
    LET show_session == ~lock_target
        show_username == forced_username = NoUsername
        rows == (IF show_session THEN 1 ELSE 0)
                + (IF show_username THEN 1 ELSE 0) + 1
        total_h == rows * row_h + SatSub(rows, 1) * gap_px
        w == FormWidth(dimensions[1], screen_size[1])
        x == SatSub(screen_size[1], w) \div 2
        y == SatSub(screen_size[2], total_h) \div 2
        after_session == AfterRow(show_session, y)
    IN [x |-> x, y |-> y, w |-> w, row_h |-> row_h, total_h |-> total_h,
        session_y |-> IF show_session THEN y ELSE NoRow,
        username_y |-> IF show_username THEN after_session ELSE NoRow,
        password_y |-> AfterRow(show_username, after_session)]

\* screen widths around twice the margin, and the two smallest
ScreenWidths == {0, 1} \cup ((2 * MarginX - 1)..(2 * MarginX + MaxExtra))
ScreenHeights == 0..(5 * MaxRowH + 1)
FormWidths == 0..(MaxExtra + 1)

LayoutIdle ==
    /\ screen_size = <<0, 0>>
    /\ dimensions = <<0, 0>>
    /\ row_h = 0
    /\ gap_px = 0
    /\ layout = <<>>

\* the fields form_layout reads, before the call
LayoutEntered ==
    /\ screen_size \in ScreenWidths \X ScreenHeights
    /\ dimensions \in FormWidths \X {0}
    /\ row_h \in 0..MaxRowH
    /\ gap_px \in 0..MaxRowH
    /\ layout = <<>>

\* one call of form_layout
FormLayout ==
    /\ layout = <<>>
    /\ layout' = <<form_layout>>
    /\ UNCHANGED <<screen_size, dimensions, row_h, gap_px>>
    /\ UNCHANGED <<greeter, login_vars, hex_vars, region_vars, mask_vars>>

NextLayout == FormLayout

----------------------------------------------------------------------------
(* Color::from_hex (src/src/color.rs) *)

\* the characters of the model's colour strings: hex digits, a letter that
\* is none, a sign, the '#', a blank and e-acute, a
\* character of two bytes in UTF-8
HexDigits == {"0", "A", "f"}
HexChars == HexDigits \cup {"g", "+", "#", " ", "e-acute"}

\* char::len_utf8
CharLen(c) == IF c = "e-acute" THEN 2 ELSE 1

\* str::len: the length in bytes
RECURSIVE ByteLen(_)
ByteLen(str) == IF str = <<>> THEN 0 ELSE CharLen(Head(str)) + ByteLen(Tail(str))

\* char::to_digit(16)
DigitValue(c) == CASE c = "0" -> 0 [] c = "A" -> 10 [] c = "f" -> 15 [] OTHER -> 0

\* str::trim_start and str::trim_end, for the blank
RECURSIVE TrimStart(_)
TrimStart(str) ==
    IF str # <<>> /\ Head(str) = " " THEN TrimStart(Tail(str)) ELSE str

RECURSIVE TrimEnd(_)
TrimEnd(str) ==
    IF str # <<>> /\ str[Len(str)] = " "
    THEN TrimEnd(SubSeq(str, 1, Len(str) - 1)) ELSE str

Trim(str) == TrimEnd(TrimStart(str))

\* str::trim_start_matches('#')
RECURSIVE TrimStartMatches(_)
TrimStartMatches(str) ==
    IF str # <<>> /\ Head(str) = "#" THEN TrimStartMatches(Tail(str)) ELSE str

\* str::is_char_boundary: byte offset at of str starts a character or ends str
IsCharBoundary(str, at) ==
    \E n \in 0..Len(str) : ByteLen(SubSeq(str, 1, n)) = at

\* the characters of &str[from..to], when both offsets are boundaries
Slice(str, from, to) ==
    LET first == CHOOSE n \in 0..Len(str) : ByteLen(SubSeq(str, 1, n)) = from
        last == CHOOSE n \in 0..Len(str) : ByteLen(SubSeq(str, 1, n)) = to
    IN SubSeq(str, first + 1, last)

\* u8::from_str_radix(src, 16) for src of at most two bytes: -1 for Err.
\* A leading '+' is a sign, not a digit; a lone sign is an error.
FromStrRadix(src) ==
    LET digits == IF src # <<>> /\ Head(src) = "+" THEN Tail(src) ELSE src
    IN IF digits = <<>> \/ \E i \in 1..Len(digits) : digits[i] \notin HexDigits
       THEN -1
       ELSE IF Len(digits) = 1 THEN DigitValue(digits[1])
       ELSE 16 * DigitValue(digits[1]) + DigitValue(digits[2])

HexOk(r, g, b, a) == [tag |-> "Ok", red |-> r, green |-> g, blue |-> b, opacity |-> a, len |-> 0]
InvalidHex == [tag |-> "InvalidHex", red |-> 0, green |-> 0, blue |-> 0, opacity |-> 0, len |-> 0]
InvalidLength(n) == [tag |-> "InvalidLength", red |-> 0, green |-> 0, blue |-> 0, opacity |-> 0, len |-> n]
\* &hex[a..b] with an offset inside a character: the slice panics
SlicePanic == [tag |-> "panic", red |-> 0, green |-> 0, blue |-> 0, opacity |-> 0, len |-> 0]
HexNone == [tag |-> "none", red |-> 0, green |-> 0, blue |-> 0, opacity |-> 0, len |-> 0]

\* u8::from_str_radix(&hex[2k..2k+2], 16) for the pairs k = from..3, in the
\* order the code evaluates them; acc holds the bytes parsed so far
RECURSIVE ParsePairs(_, _, _, _)
ParsePairs(hex, k, count, acc) ==
    IF k = count
    THEN IF count = 3
         THEN HexOk(acc[1], acc[2], acc[3], 255)
         ELSE HexOk(acc[2], acc[3], acc[4], acc[1])
    ELSE IF ~(IsCharBoundary(hex, 2 * k) /\ IsCharBoundary(hex, 2 * k + 2))
         THEN SlicePanic
         ELSE LET v == FromStrRadix(Slice(hex, 2 * k, 2 * k + 2))
              IN IF v = -1 THEN InvalidHex
                 ELSE ParsePairs(hex, k + 1, count, Append(acc, v))

from_hex(str) ==
    LET hex == TrimStartMatches(Trim(str))
    IN CASE ByteLen(hex) = 6 -> ParsePairs(hex, 0, 3, <<>>)
         [] ByteLen(hex) = 8 -> ParsePairs(hex, 0, 4, <<>>)
         [] OTHER -> InvalidLength(ByteLen(hex))

\* n digits 'f', the one at position at replaced by c
OneOff(n, at, c) == [i \in 1..n |-> IF i = at THEN c ELSE "f"]

\* colour strings: no, one or two leading '#', then digits with at most
\* one other character among them
HexInputs ==
    {lead \o OneOff(n, at, c) :
        lead \in {<<>>, <<"#">>, <<"#", "#">>},
        n \in 0..MaxHexLen, at \in 0..MaxHexLen, c \in HexChars}

HexIdle ==
    /\ hex_s = <<>>
    /\ hex_ret = HexNone

HexEntered ==
    /\ hex_s \in HexInputs
    /\ hex_ret = HexNone

\* one call of Color::from_hex
FromHex ==
    /\ hex_ret = HexNone
    /\ hex_ret' = from_hex(hex_s)
    /\ hex_s' = hex_s
    /\ UNCHANGED <<greeter, login_vars, layout_vars, region_vars, mask_vars>>

NextHex == FromHex

----------------------------------------------------------------------------
(* Region Buffer *)

\* A view is its rectangle in the coordinates of the pixel buffer; views is
\* the chain of live views, each borrowed from the one before it, views[1]
\* the whole buffer.  written holds the offsets into pixel memory that the
\* latest operation wrote.
Rect(x, y, w, h) == [x |-> x, y |-> y, w |-> w, h |-> h]

Op(name, x, y, w, h, ok) ==
    [name |-> name, x |-> x, y |-> y, w |-> w, h |-> h, ok |-> ok]

OpNone == Op("none", 0, 0, 0, 0, TRUE)

\* Buffer::new: the view of the whole buffer
WholeBuffer == Rect(0, 0, BufW, BufH)

Current == views[Len(views)]

\* the offset into pixel memory of the pixel at (cx, cy) of view v
PixelOffset(v, cx, cy) == (v.y + cy) * BufW + (v.x + cx)

Inside_unchecked(v, x, y, w, h) == TRUE

\* the rectangle lies fully inside view v
Inside(v, x, y, w, h) == x + w <= v.w /\ y + h <= v.h

\* subdimensions((x, y, w, h)): a view of the rectangle, in the current
\* view's coordinates, or OutOfBounds and no view.  The rectangles asked for
\* reach up to one pixel beyond the current view on either axis.
Subdimensions ==
    /\ views # <<>>
    /\ Len(views) <= MaxDepth
    /\ \E x \in 0..Current.w, y \in 0..Current.h :
       \E w \in 1..(Current.w + 1 - x), h \in 1..(Current.h + 1 - y) :
         IF Inside(Current, x, y, w, h)
         THEN /\ views' = Append(views, Rect(Current.x + x, Current.y + y, w, h))
              /\ last_op' = Op("subdimensions", x, y, w, h, TRUE)
         ELSE /\ views' = views
              /\ last_op' = Op("subdimensions", x, y, w, h, FALSE)
    /\ written' = {}
    /\ UNCHANGED <<greeter, login_vars, layout_vars, hex_vars, mask_vars>>

\* memset(color): every pixel of the current view
Memset ==
    /\ views # <<>>
    /\ written' = {PixelOffset(Current, cx, cy) :
                       cx \in 0..(Current.w - 1), cy \in 0..(Current.h - 1)}
    /\ last_op' = Op("memset", 0, 0, Current.w, Current.h, TRUE)
    /\ views' = views
    /\ UNCHANGED <<greeter, login_vars, layout_vars, hex_vars, mask_vars>>

\* put and put_argb8888: one pixel of the current view, or OutOfBounds for a
\* coordinate beyond it
PutPixel(name) ==
    /\ views # <<>>
    /\ \E cx \in 0..Current.w, cy \in 0..Current.h :
         IF cx < Current.w /\ cy < Current.h
         THEN /\ written' = {PixelOffset(Current, cx, cy)}
              /\ last_op' = Op(name, cx, cy, 1, 1, TRUE)
         ELSE /\ written' = {}
              /\ last_op' = Op(name, cx, cy, 1, 1, FALSE)
    /\ views' = views
    /\ UNCHANGED <<greeter, login_vars, layout_vars, hex_vars, mask_vars>>

Put == PutPixel("put")

PutArgb8888 == PutPixel("put_argb8888")

\* the current view goes out of scope; the view it borrowed from is usable again
DropView ==
    /\ Len(views) >= 2
    /\ views' = SubSeq(views, 1, Len(views) - 1)
    /\ written' = {}
    /\ last_op' = Op("drop", 0, 0, 0, 0, TRUE)
    /\ UNCHANGED <<greeter, login_vars, layout_vars, hex_vars, mask_vars>>

NextRegion ==
    \/ Subdimensions
    \/ Memset
    \/ Put
    \/ PutArgb8888
    \/ DropView

RegionIdle ==
    /\ views = <<>>
    /\ written = {}
    /\ last_op = OpNone

RegionEntered ==
    /\ views = <<WholeBuffer>>
    /\ written = {}
    /\ last_op = OpNone

----------------------------------------------------------------------------
(* The password field in two runs of the loop, both in EditingPassword,    *)
(* which read the same control bytes and, where one reads an ordinary      *)
(* byte, the other reads an ordinary byte too.  A step of a run is the     *)
(* handler of the byte, refresh(), and the password block of the redraw    *)
(* phase that follows (greeter_loop.rs 85-91, draw.rs 349-404).            *)

\* draw_password(&password, redraw): the row cleared if redraw, and one mask
\* character for each of the password.len() bytes
DrawPassword(pw, redraw) ==
    [op |-> "password", clear |-> redraw, stars |-> StrLen(pw)]

\* a run after its handler left pw in the password buffer
RunStep(run, pw) ==
    LET changed == StrLen(pw) # run.last_password_len
    IN [password |-> pw,
        last_password_len |-> IF changed THEN StrLen(pw) ELSE run.last_password_len,
        painted |-> IF changed
                    THEN <<DrawPassword(pw, Shrunk(StrLen(pw), run.last_password_len))>>
                    ELSE <<>>,
        commit |-> Refresh(run.should_refresh),
        should_refresh |-> changed]

RunStart ==
    [password |-> <<>>, last_password_len |-> 0, painted |-> <<>>,
     commit |-> <<>>, should_refresh |-> FALSE]

\* v => password.push(v as char), in both runs, each with a byte of its own
TypeBoth ==
    /\ runs # <<>>
    /\ Len(runs[1].password) < MaxTyped
    /\ \E v \in OrdinaryBytes, w \in OrdinaryBytes :
         runs' = <<RunStep(runs[1], Append(runs[1].password, v)),
                   RunStep(runs[2], Append(runs[2].password, w))>>
    /\ UNCHANGED <<greeter, login_vars, layout_vars, hex_vars, region_vars>>

\* '\x7F' => password.pop(), in both runs
BackspaceBoth ==
    /\ runs # <<>>
    /\ runs' = <<RunStep(runs[1], Pop(runs[1].password)),
                 RunStep(runs[2], Pop(runs[2].password))>>
    /\ UNCHANGED <<greeter, login_vars, layout_vars, hex_vars, region_vars>>

\* '\x15' | '\x0B' => password.clear(), in both runs
ClearBoth ==
    /\ runs # <<>>
    /\ runs' = <<RunStep(runs[1], <<>>), RunStep(runs[2], <<>>)>>
    /\ UNCHANGED <<greeter, login_vars, layout_vars, hex_vars, region_vars>>

NextMask ==
    \/ TypeBoth
    \/ BackspaceBoth
    \/ ClearBoth

MaskIdle == runs = <<>>

MaskEntered == runs = <<RunStart, RunStart>>

----------------------------------------------------------------------------
(* Specifications *)

\* a greeter the other specifications leave at rest: one target, no
\* configured target, no forced username
GreeterAtRest ==
    /\ GreeterInit
    /\ Len(targets) = 1
    /\ login_target = NoTarget
    /\ forced_username = NoUsername
    /\ stream_left = Endless

UnitsIdle == LoginIdle /\ LayoutIdle /\ HexIdle /\ RegionIdle /\ MaskIdle

Init == GreeterInit /\ stream_left = Endless /\ UnitsIdle

InitLogin == GreeterAtRest /\ LoginEntered /\ LayoutIdle /\ HexIdle /\ RegionIdle /\ MaskIdle

SpecLogin == InitLogin /\ [][NextLogin]_vars

\* the four combinations of a locked target and a forced username
InitLayout ==
    /\ GreeterInit
    /\ Len(targets) = 1
    /\ login_target \in {NoTarget, "gnome"}
    /\ stream_left = Endless
    /\ LoginIdle /\ LayoutEntered /\ HexIdle /\ RegionIdle /\ MaskIdle

SpecLayout == InitLayout /\ [][NextLayout]_vars

InitHex == GreeterAtRest /\ LoginIdle /\ LayoutIdle /\ HexEntered /\ RegionIdle /\ MaskIdle

SpecHex == InitHex /\ [][NextHex]_vars

InitRegion == GreeterAtRest /\ LoginIdle /\ LayoutIdle /\ HexIdle /\ RegionEntered /\ MaskIdle

SpecRegion == InitRegion /\ [][NextRegion]_vars

InitMask == GreeterAtRest /\ LoginIdle /\ LayoutIdle /\ HexIdle /\ RegionIdle /\ MaskEntered

SpecMask == InitMask /\ [][NextMask]_vars

Next ==
    \/ MainDraw
    \/ Start
    \/ Redraw
    \/ StdinClosed
    \/ ClearKey
    \/ AbortKey
    \/ BackspaceKey
    \/ TabKey
    \/ EnterKey
    \/ EscapeKey
    \/ OrdinaryKey

Spec == Init /\ [][Next]_vars

\* The greeter on a stdin that delivers finitely many bytes and then closes.
\* The program is one thread and every paint, greetd call and read returns,
\* so a step that can be taken is taken.
InitFinite == GreeterInit /\ stream_left \in 0..MaxStream /\ UnitsIdle

SpecFinite == InitFinite /\ [][Next]_vars /\ WF_vars(Next)

----------------------------------------------------------------------------
(* What the latest step did *)

LoginAttempted == calls # <<>> /\ calls[1].op = "login"

LoginFailed == LoginAttempted /\ calls[1].res # "Ok"

LoginSucceeded == LoginAttempted /\ calls[1].res = "Ok"

CancelCount == Cardinality({i \in 1..Len(calls) : calls[i].op = "cancel"})

LoginCount == Cardinality({i \in 1..Len(calls) : calls[i].op = "login"})

Forced == forced_username # NoUsername

AllowedModes == {m \in Mode : mode_allowed(m)}

\* what an input step may never touch when it is said to change nothing
SessionState == <<mode, username, password, target_index>>

----------------------------------------------------------------------------
(* C1: in every reachable state the current mode is an allowed mode:       *)
(* SelectingSession only if the target is not locked, EditingUsername only *)
(* if no username is forced.                                               *)
C1_ModeAllowed ==
    /\ mode \in Mode
    /\ mode = SelectingSession => ~lock_target
    /\ mode = EditingUsername => forced_username = NoUsername

\* Tab was pressed with the target locked and the username forced
C1_Witness ==
    /\ pc = "redraw" /\ inp = <<Tab>>
    /\ lock_target /\ Forced
    /\ mode = EditingPassword

(* C2, as claimed: after any login attempt the password buffer is empty;   *)
(* after a failed attempt both buffers are empty and the mode is the first *)
(* allowed editable mode, for every configuration.                         *)
C2_Original ==
    /\ LoginAttempted => password = <<>>
    /\ LoginFailed =>
         /\ username = <<>>
         /\ password = <<>>
         /\ mode = (IF Forced THEN EditingPassword ELSE EditingUsername)

(* C2, amended: after any login attempt the password buffer is empty;      *)
(* after a failed attempt the username buffer is empty when no username is *)
(* forced and holds the forced username when one is, and the mode is the   *)
(* first allowed editable mode unless the error repaint failed and the     *)
(* loop returned.                                                          *)
C2_Amended ==
    /\ LoginAttempted => password = <<>>
    /\ LoginFailed =>
         /\ username = (IF Forced THEN forced_username ELSE <<>>)
         /\ exit # "paint" =>
              mode = (IF Forced THEN EditingPassword ELSE EditingUsername)

\* a failed attempt with a forced username, the loop going on
C2_Witness ==
    /\ LoginFailed /\ Forced
    /\ pc = "redraw"
    /\ username = forced_username /\ password = <<>>
    /\ mode = EditingPassword

(* C3: every login call passes identity = the forced username if there is  *)
(* one, otherwise the username buffer when Enter was pressed; secret = the *)
(* password buffer at that moment; argv = the exec of the target selected  *)
(* at that moment.                                                         *)
C3_LoginArguments ==
    [][(pc = "read" /\ calls' # <<>> /\ calls'[1].op = "login") =>
         /\ calls'[1].identity = (IF Forced THEN forced_username ELSE username)
         /\ calls'[1].secret = password
         /\ calls'[1].argv = targets[target_index + 1].exec
         /\ LoginCount' = 1]_vars

\* a login with a typed username and password for the second target
C3_Witness ==
    /\ LoginAttempted /\ ~Forced
    /\ calls[1].identity = <<97>>
    /\ calls[1].secret = <<233, 97>>
    /\ target_index = 1
    /\ calls[1].argv = <<"sway">>

(* C4, as claimed: after every failed login attempt cancel() is issued     *)
(* exactly once before the next byte is read or the loop exits, and a      *)
(* failure of cancel() does not end the loop.                              *)
C4_Original ==
    LoginFailed =>
      /\ CancelCount = 1
      /\ calls[Len(calls)].res # "Ok" => pc # "done"

(* C4, amended: after every failed login attempt whose error repaint       *)
(* succeeds cancel() is issued exactly once, right after the login, before *)
(* the next byte is read, and the loop goes on whatever cancel() returns;  *)
(* when the error repaint fails the loop returns without calling cancel(). *)
C4_Amended ==
    LoginFailed =>
      IF exit = "paint"
      THEN CancelCount = 0 /\ pc = "done"
      ELSE /\ CancelCount = 1
           /\ Len(calls) = 2 /\ calls[2].op = "cancel"
           /\ pc = "redraw" /\ exit = "running"

\* a failed attempt whose cancel() failed too
C4_Witness ==
    /\ LoginFailed
    /\ Len(calls) = 2 /\ calls[2].op = "cancel" /\ calls[2].res = "Ipc"
    /\ pc = "redraw"

(* C5: when a login attempt succeeds the loop exits at once: no further    *)
(* byte is read, no cancel() is issued and no further login is attempted.  *)
C5_SuccessExits ==
    LoginSucceeded =>
      /\ pc = "done" /\ exit = "login_ok"
      /\ CancelCount = 0 /\ LoginCount = 1
      /\ ~ENABLED Next

\* a successful login
C5_Witness == LoginSucceeded /\ calls[1].secret # <<>> /\ pc = "done"

(* C6, as claimed: whenever the loop reads 0x03 or 0x04, whatever bytes    *)
(* preceded it, both buffers are cleared, cancel() is issued once and the  *)
(* loop exits.                                                             *)
C6_Original ==
    (\E i \in 1..Len(inp) : inp[i] \in {CtrlC, CtrlD}) =>
      /\ username = <<>> /\ password = <<>>
      /\ CancelCount = 1 /\ LoginCount = 0
      /\ pc = "done" /\ exit = "abort"

(* C6, amended: whenever the loop reads 0x03 or 0x04 as the first byte of  *)
(* an input step (not as the second or third byte of an escape sequence,   *)
(* which is dropped), in any mode, both buffers are cleared, cancel() is   *)
(* issued exactly once and the loop exits without a further read or login. *)
C6_Amended ==
    (inp # <<>> /\ inp[1] \in {CtrlC, CtrlD}) =>
      /\ username = <<>> /\ password = <<>>
      /\ CancelCount = 1 /\ LoginCount = 0
      /\ pc = "done" /\ exit = "abort"
      /\ ~ENABLED Next

\* 0x03 read with a forced username and two characters of password typed
C6_Witness ==
    /\ inp = <<CtrlC>> /\ Forced
    /\ last_password_len = 2
    /\ username = <<>> /\ password = <<>>

(* C7: Enter in EditingPassword with an empty password buffer: with an     *)
(* editable username the username buffer is cleared and the mode becomes   *)
(* EditingUsername; with a forced username nothing changes.  No login is   *)
(* called and the target index is unchanged.                               *)
C7_EnterEmptyPassword ==
    [][(pc = "read" /\ inp' = <<Enter>> /\ mode = EditingPassword
          /\ password = <<>>) =>
         /\ IF Forced
            THEN UNCHANGED SessionState
            ELSE username' = <<>> /\ mode' = EditingUsername
         /\ password' = <<>>
         /\ target_index' = target_index
         /\ calls' = <<>>
         /\ pc' = "redraw"]_vars

\* Enter with an empty password cleared a typed username
C7_Witness ==
    /\ pc = "redraw" /\ inp = <<Enter>>
    /\ last_mode = EditingPassword /\ mode = EditingUsername
    /\ last_username_len > 0 /\ last_password_len = 0
    /\ username = <<>>

(* C8: Enter in EditingUsername moves the mode to EditingPassword if and   *)
(* only if the username buffer is non-empty, and changes nothing with an   *)
(* empty one; buffers and target index are unchanged in both cases.        *)
C8_EnterUsername ==
    [][(pc = "read" /\ inp' = <<Enter>> /\ mode = EditingUsername) =>
         /\ mode' = EditingPassword <=> username # <<>>
         /\ username = <<>> => mode' = mode
         /\ UNCHANGED <<username, password, target_index>>
         /\ calls' = <<>>]_vars

\* Enter moved a typed username on to the password
C8_Witness ==
    /\ pc = "redraw" /\ inp = <<Enter>>
    /\ last_mode = EditingUsername /\ mode = EditingPassword
    /\ username = <<97, 233>>

(* C9: Enter in SelectingSession sets the mode to EditingUsername if no    *)
(* username is forced, otherwise to EditingPassword; buffers and target    *)
(* index are unchanged and no login is attempted.                          *)
C9_EnterSelecting ==
    [][(pc = "read" /\ inp' = <<Enter>> /\ mode = SelectingSession) =>
         /\ mode' = (IF Forced THEN EditingPassword ELSE EditingUsername)
         /\ UNCHANGED <<username, password, target_index>>
         /\ calls' = <<>>]_vars

\* Enter on the session row with a forced username
C9_Witness ==
    /\ pc = "redraw" /\ inp = <<Enter>>
    /\ Forced /\ ~lock_target
    /\ last_mode = SelectingSession /\ mode = EditingPassword

----------------------------------------------------------------------------
(* Repeated cycle-forward *)

RECURSIVE CycleForward(_, _)
CycleForward(m, n) ==
    IF n = 0 THEN m ELSE CycleForward(next_allowed_mode(m), n - 1)

CycleSteps == 3 * 3

Visited(m) == {CycleForward(m, k) : k \in 0..CycleSteps}

(* C10, as claimed: for every configuration and every allowed starting     *)
(* mode, cycle-forward applied 9 times returns to the starting mode and    *)
(* visits no disallowed mode.                                              *)
C10_Original ==
    \A m \in AllowedModes :
      /\ CycleForward(m, CycleSteps) = m
      /\ \A v \in Visited(m) : mode_allowed(v)

(* C10, amended: for every configuration and every allowed starting mode,  *)
(* cycle-forward applied 9 times visits no disallowed mode; it returns to  *)
(* the starting mode when one or three modes are allowed, and with exactly *)
(* two allowed modes it ends on the other allowed mode (two applications   *)
(* return to the start).                                                   *)
C10_Amended ==
    \A m \in AllowedModes :
      /\ \A v \in Visited(m) : v \in AllowedModes
      /\ Cardinality(AllowedModes) # 2 => CycleForward(m, CycleSteps) = m
      /\ Cardinality(AllowedModes) = 2 =>
           /\ CycleForward(m, CycleSteps) # m
           /\ CycleForward(m, 2) = m
      /\ CycleForward(m, Cardinality(AllowedModes)) = m

\* Tab pressed with two allowed modes: EditingPassword -> SelectingSession
C10_Witness ==
    /\ pc = "redraw" /\ inp = <<Tab>>
    /\ Forced /\ ~lock_target
    /\ last_mode = EditingPassword /\ mode = SelectingSession

----------------------------------------------------------------------------
(* The ring walks as the claims state them *)

WalkForward(m) ==
    LET a == RingNext(m)
        b == RingNext(a)
        c == RingNext(b)
    IN IF mode_allowed(a) THEN a
       ELSE IF mode_allowed(b) THEN b
       ELSE IF mode_allowed(c) THEN c
       ELSE m

WalkBackward(m) ==
    LET a == RingPrev(m)
        b == RingPrev(a)
        c == RingPrev(b)
    IN IF mode_allowed(a) THEN a
       ELSE IF mode_allowed(b) THEN b
       ELSE IF mode_allowed(c) THEN c
       ELSE m

(* C11: Tab and ESC [ B set the mode to the first allowed mode met walking *)
(* the ring forward from the current mode for at most 3 steps, ESC [ A the *)
(* same walking it backward; the mode stays if no step meets an allowed    *)
(* mode.  Buffers and target index are unchanged.                          *)
C11_CycleKeys ==
    [][pc = "read" =>
         /\ inp' \in {<<Tab>>, ArrowDown} =>
              /\ mode' = WalkForward(mode)
              /\ UNCHANGED <<username, password, target_index>>
         /\ inp' = ArrowUp =>
              /\ mode' = WalkBackward(mode)
              /\ UNCHANGED <<username, password, target_index>>]_vars

\* ESC [ A from EditingPassword skipped the forced username row
C11_Witness ==
    /\ pc = "redraw" /\ inp = ArrowUp
    /\ Forced /\ ~lock_target
    /\ last_mode = EditingPassword /\ mode = SelectingSession

(* C12: targets is non-empty whenever the loop runs (with an empty list    *)
(* the program stops before the loop), and 0 <= target_index <             *)
(* targets.len() in every reachable state.                                 *)
C12_TargetIndexValid ==
    /\ targets = <<>> => (pc = "main" \/ (pc = "done" /\ exit = "no_targets"))
    /\ targets # <<>> => (target_index >= 0 /\ target_index < Len(targets))

\* ESC [ D wrapped the index from 0 to the last target
C12_Witness ==
    /\ pc = "redraw" /\ inp = ArrowLeft
    /\ Len(targets) = 2
    /\ last_target_index = 0 /\ target_index = 1

GnomeSway ==
    /\ Len(targets) = 2
    /\ targets[1].name = "gnome" /\ targets[2].name = "sway"
    /\ ~lock_target

(* C14, as claimed: from the initial state at startup with the targets     *)
(* gnome and sway and an unlocked session row, ESC [ C moves target_index  *)
(* from 0 to 1 and a second ESC [ C wraps it back to 0.                    *)
C14_Original ==
    GnomeSway =>
      /\ trace = <<>> => target_index = 0
      /\ trace = <<ArrowRight>> => target_index = 1
      /\ trace = <<ArrowRight, ArrowRight>> => target_index = 0

(* C14, amended: with the targets gnome and sway and an unlocked session   *)
(* row the mode at startup is not SelectingSession, so ESC [ C pressed     *)
(* first leaves target_index at 0; once ESC [ A has moved the mode from    *)
(* the startup mode to SelectingSession, ESC [ C moves target_index from 0 *)
(* to 1 and a second ESC [ C wraps it back to 0.                           *)
C14_Amended ==
    GnomeSway =>
      /\ trace = <<>> => (target_index = 0 /\ mode # SelectingSession)
      /\ trace = <<ArrowRight>> => target_index = 0
      /\ trace = <<ArrowUp>> => (mode = SelectingSession /\ target_index = 0)
      /\ trace = <<ArrowUp, ArrowRight>> => target_index = 1
      /\ trace = <<ArrowUp, ArrowRight, ArrowRight>> => target_index = 0

\* ESC [ A, ESC [ C, ESC [ C from startup: the index is back at gnome
C14_Witness ==
    /\ GnomeSway
    /\ trace = <<ArrowUp, ArrowRight, ArrowRight>>
    /\ pc = "read" /\ mode = SelectingSession
    /\ target_index = 0

(* C15: an escape sequence other than ESC [ A/B/C/D is ignored: ESC [ x    *)
(* consumes three reads, ESC y with y # '[' two, and mode, buffers and     *)
(* target index are unchanged; the consumed bytes are neither commands nor *)
(* appended to a buffer.                                                   *)
C15_OtherEscapeIgnored ==
    [][(pc = "read" /\ inp' # <<>> /\ inp'[1] = Esc) =>
         /\ Len(inp') \in {2, 3}
         /\ Len(inp') = 3 <=> inp'[2] = LBracket
         /\ inp' \notin {ArrowUp, ArrowDown, ArrowRight, ArrowLeft} =>
              /\ UNCHANGED SessionState
              /\ calls' = <<>>
              /\ pc' = "redraw"]_vars

\* ESC [ \r with a password typed: no submit, nothing appended
C15_Witness ==
    /\ pc = "redraw" /\ inp = <<Esc, LBracket, Enter>>
    /\ mode = EditingPassword /\ password = <<97, 233>>

(* C16: 0x15 or 0x0B empties the buffer of the active editable field and   *)
(* nothing else: the password in EditingPassword, the username in          *)
(* EditingUsername when it is not forced; mode and target index never      *)
(* change.                                                                 *)
C16_ClearKey ==
    [][(pc = "read" /\ inp' \in {<<CtrlU>>, <<CtrlK>>}) =>
         /\ password' = IF mode = EditingPassword THEN <<>> ELSE password
         /\ username' = IF mode = EditingUsername /\ ~Forced
                        THEN <<>> ELSE username
         /\ UNCHANGED <<mode, target_index>>
         /\ calls' = <<>>]_vars

\* 0x0B emptied a typed username
C16_Witness ==
    /\ pc = "redraw" /\ inp = <<CtrlK>>
    /\ mode = EditingUsername
    /\ last_username_len = 3 /\ username = <<>>

\* s without its last character
ButLast(s) == [i \in 1..(Len(s) - 1) |-> s[i]]

(* C17: 0x7F removes exactly the last character of the active field's      *)
(* buffer and leaves the other buffer, the mode and the target index       *)
(* unchanged; a no-op in SelectingSession and on an empty buffer.          *)
C17_Backspace ==
    [][(pc = "read" /\ inp' = <<Backspace>>) =>
         /\ password' = IF mode = EditingPassword /\ password # <<>>
                        THEN ButLast(password) ELSE password
         /\ username' = IF mode = EditingUsername /\ ~Forced /\ username # <<>>
                        THEN ButLast(username) ELSE username
         /\ UNCHANGED <<mode, target_index>>
         /\ calls' = <<>>]_vars

\* 0x7F removed the two-byte character at the end of the password
C17_Witness ==
    /\ pc = "redraw" /\ inp = <<Backspace>>
    /\ mode = EditingPassword
    /\ last_password_len = 3 /\ password = <<97>>

(* C18: a first byte that is none of 0x03, 0x04, 0x0B, 0x15, 0x7F, tab,    *)
(* \r, ESC appends exactly one character to the active editable buffer     *)
(* (password in EditingPassword, username in EditingUsername when not      *)
(* forced) and changes nothing else; a no-op in SelectingSession.          *)
C18_OrdinaryByte ==
    [][(pc = "read" /\ Len(inp') = 1
          /\ inp'[1] \notin {3, 4, 11, 21, 127, 9, 13, 27, NoByte}) =>
         /\ password' = IF mode = EditingPassword
                        THEN password \o <<inp'[1]>> ELSE password
         /\ username' = IF mode = EditingUsername /\ ~Forced
                        THEN username \o <<inp'[1]>> ELSE username
         /\ UNCHANGED <<mode, target_index>>
         /\ calls' = <<>>
         /\ pc' = "redraw"]_vars

\* byte 0xE9 appended one character to the username
C18_Witness ==
    /\ pc = "redraw" /\ inp = <<233>>
    /\ mode = EditingUsername
    /\ last_username_len = 1 /\ username = <<97, 233>>

(* C19: at startup the mode is EditingPassword if a username is forced and *)
(* EditingUsername otherwise; the password buffer is empty; the target is  *)
(* locked with target_index the index of the configured target exactly     *)
(* when the configured name matches a discovered target, otherwise the     *)
(* session row is unlocked and target_index = 0.                           *)
C19_Startup ==
    (pc \in {"main", "start"} /\ targets # <<>>) =>
      /\ mode = (IF Forced THEN EditingPassword ELSE EditingUsername)
      /\ password = <<>>
      /\ IF \E i \in 1..Len(targets) : targets[i].name = login_target
         THEN /\ lock_target
              /\ targets[target_index + 1].name = login_target
              /\ \A j \in 1..target_index : targets[j].name # login_target
         ELSE ~lock_target /\ target_index = 0

\* the loop starts locked on the second target, with a forced username
C19_Witness ==
    /\ pc = "start"
    /\ login_target = "sway" /\ Forced
    /\ lock_target /\ target_index = 1
    /\ mode = EditingPassword

(* C20, as claimed: when a read of the input yields no byte, on any read   *)
(* including the second or third of an escape sequence, the loop ends and  *)
(* nothing is processed after the failed read.                             *)
C20_FailedReadEndsLoop ==
    (\E i \in 1..Len(inp) : inp[i] = NoByte) =>
      /\ pc = "done" /\ exit = "stdin"
      /\ calls = <<>>

----------------------------------------------------------------------------
(* What the latest redraw phase did *)

\* the latest paint call returned Err
PaintError == painted # <<>> /\ ~painted[Len(painted)].ok

\* the paint calls as (row, cleared) pairs
Ops(seq) == [i \in 1..Len(seq) |-> <<seq[i].op, seq[i].clear>>]

\* the rows of seq painted by a call for row op
Calls(seq, op) == {i \in 1..Len(seq) : seq[i].op = op}

\* background and heading, then every visible row, each cleared
Chrome ==
    << <<"bg", TRUE>> >>
    \o (IF lock_target THEN <<>> ELSE << <<"target", TRUE>> >>)
    \o (IF Forced THEN <<>> ELSE << <<"username", TRUE>> >>)
    \o << <<"password", TRUE>> >>

(* C21, as claimed: after a login error of any kind the loop has not       *)
(* exited: buffers reset, mode at the first editable field, the full       *)
(* repaint pending, the loop going on to its next redraw and read.         *)
C21_Original ==
    LoginFailed =>
      /\ pc = "redraw" /\ exit = "running"
      /\ had_failure
      /\ password = <<>>
      /\ username = (IF Forced THEN forced_username ELSE <<>>)
      /\ mode = (IF Forced THEN EditingPassword ELSE EditingUsername)

(* C21, amended: every error login() returns (authentication failure or    *)
(* IPC failure alike) resets the buffers; if the error repaint succeeds    *)
(* the loop does not exit: the mode is the first editable field, the full  *)
(* repaint is pending and the loop goes to the redraw phase, and the       *)
(* pending repaint lasts only until that phase; if the error repaint fails *)
(* the loop has exited.                                                    *)
C21_Amended ==
    /\ LoginFailed =>
         /\ password = <<>>
         /\ username = (IF Forced THEN forced_username ELSE <<>>)
         /\ IF exit = "paint"
            THEN pc = "done" /\ ~had_failure
            ELSE /\ pc = "redraw" /\ exit = "running"
                 /\ had_failure
                 /\ mode = (IF Forced THEN EditingPassword ELSE EditingUsername)
    /\ had_failure =>
         \/ pc = "redraw" /\ LoginFailed
         \/ pc = "done" /\ exit = "paint" /\ PaintError

\* an IPC failure of login(): the loop goes on, the repaint is pending
C21_Witness ==
    /\ LoginFailed /\ calls[1].res = "Ipc"
    /\ pc = "redraw" /\ had_failure
    /\ ~Forced /\ mode = EditingUsername

(* C22: if a paint call of the redraw phase fails the loop exits at once:  *)
(* no input byte is read and no login or cancel call is made afterwards.   *)
C22_PaintFailureExits ==
    PaintError =>
      /\ pc = "done" /\ exit = "paint"
      /\ inp = <<>> /\ calls = <<>>
      /\ ~ENABLED Next

\* the password row of a full repaint failed after the background succeeded
C22_Witness ==
    /\ PaintError
    /\ Len(painted) >= 2
    /\ painted[1].ok
    /\ painted[Len(painted)].op = "password" /\ painted[Len(painted)].blk = 4
    /\ pc = "done"

(* C29: a redraw phase that starts with the mode different from the        *)
(* last-rendered mode, or with a failed login pending, and that reaches    *)
(* the read of the next byte has painted the full chrome: background and   *)
(* heading, then every visible row (session row if unlocked, username row  *)
(* if not forced, password row), each cleared; afterwards the mode is the  *)
(* last-rendered mode and no failure is pending.                           *)
C29_FullRepaint ==
    [][(pc = "redraw" /\ pc' = "read" /\ (last_mode # mode \/ had_failure)) =>
         /\ \E k \in 0..Len(painted') :
              /\ k + Len(Chrome) = Len(painted')
              /\ SubSeq(Ops(painted'), k + 1, Len(painted')) = Chrome
         /\ \A i \in 1..Len(painted') : painted'[i].ok
         /\ last_mode' = mode /\ ~had_failure']_vars

\* the full repaint after a failed login, all three rows visible
C29_Witness ==
    /\ pc = "read"
    /\ ~lock_target /\ ~Forced
    /\ Len(painted) >= 4
    /\ painted[Len(painted) - 3].op = "bg" /\ painted[Len(painted) - 3].blk = 5
    /\ painted[Len(painted)].op = "password"

\* a redraw phase with the rendered mode current and no failure pending
QuietRedraw == pc = "redraw" /\ last_mode = mode /\ ~had_failure

(* C30, as claimed: in a redraw phase where the mode did not change and no *)
(* failure is pending a row is painted iff its observable differs from the *)
(* last-rendered value, the username/password row is cleared only when its *)
(* buffer got shorter than it was rendered, and nothing is painted when    *)
(* no observable changed.                                                  *)
C30_Original ==
    [][QuietRedraw =>
         /\ Calls(painted', "username") # {} <=>
              StrLen(username) # last_username_len
         /\ Calls(painted', "password") # {} <=>
              StrLen(password) # last_password_len
         /\ Calls(painted', "target") # {} <=>
              target_index # last_target_index
         /\ \A i \in Calls(painted', "username") :
              painted'[i].clear =>
                (last_username_len # UsizeMax
                   /\ StrLen(username) < last_username_len)
         /\ \A i \in Calls(painted', "password") :
              painted'[i].clear => StrLen(password) < last_password_len]_vars

(* C30, amended: in such a redraw phase the username row is painted iff no *)
(* username is forced and the byte length of the username differs from the *)
(* last-rendered length, which is usize::MAX until the row is first        *)
(* painted, so that the first paint of the row clears it although the      *)
(* buffer did not get shorter; the password row is painted iff its byte    *)
(* length differs from the last-rendered one; the session row iff it is    *)
(* unlocked and the target index differs, and it is always cleared; the    *)
(* username/password row is cleared iff the length is below the            *)
(* last-rendered one; each row is painted at most once, and nothing else   *)
(* is painted.                                                             *)
C30_Amended ==
    [][QuietRedraw =>
         /\ Calls(painted', "username") # {} <=>
              (~Forced /\ StrLen(username) # last_username_len)
         /\ Calls(painted', "password") # {} <=>
              StrLen(password) # last_password_len
         /\ Calls(painted', "target") # {} <=>
              (~lock_target /\ target_index # last_target_index)
         /\ \A i \in Calls(painted', "username") :
              painted'[i].clear <=> StrLen(username) < last_username_len
         /\ \A i \in Calls(painted', "password") :
              painted'[i].clear <=> StrLen(password) < last_password_len
         /\ \A i \in Calls(painted', "target") : painted'[i].clear
         /\ Calls(painted', "bg") = {}
         /\ \A op \in {"username", "password", "target"} :
              Cardinality(Calls(painted', op)) <= 1]_vars

\* a two-byte character typed: the password row painted without clearing
C30_Witness ==
    /\ pc = "read"
    /\ Ops(painted) = << <<"password", FALSE>> >>
    /\ password = <<97, 233>> /\ last_password_len = 3

----------------------------------------------------------------------------
(* What one call of login has read and written *)

\* the responses read so far, in order
ReadMsgs == [i \in 1..Len(SelectSeq(wire, LAMBDA e : e.dir = "read")) |->
               SelectSeq(wire, LAMBDA e : e.dir = "read")[i].msg]

\* the positions of the wire a message stands at
WireAt(e) == {i \in 1..Len(wire) : wire[i] = e}

(* C23, as claimed: login returns success only on an immediate success or  *)
(* on exactly one 'secret requested' prompt followed by success, and an    *)
(* authentication failure whenever the first response is an error or a     *)
(* prompt of another type, a second prompt arrives, or any response read   *)
(* during the call, the one to StartSession included, is an error.         *)
C23_LoginResult ==
    greetd_pc = "returned" =>
      /\ login_ret = "Ok" =>
           /\ ReadMsgs # <<>>
           /\ ReadMsgs[1] \in {"Success", "AuthSecret"}
           /\ ReadMsgs[1] = "AuthSecret" => ReadMsgs = <<"AuthSecret", "Success">>
           /\ \A i \in 1..Len(ReadMsgs) : ReadMsgs[i] # "Error"
      /\ (ReadMsgs # <<>> /\ ReadMsgs[1] \notin {"Success", "AuthSecret"}) =>
           login_ret = "AuthFailed"
      /\ (Len(ReadMsgs) = 2 /\ ReadMsgs[1] = "AuthSecret"
            /\ ReadMsgs[2] \in AuthPrompts) => login_ret = "AuthFailed"
      /\ (\E i \in 1..Len(ReadMsgs) : ReadMsgs[i] = "Error") =>
           login_ret = "AuthFailed"

(* C28, as claimed: StartSession is written only after a success response  *)
(* has been read, and when the first response is a 'secret requested'      *)
(* prompt the secret is posted after that prompt was read and the session  *)
(* started only after that.                                                *)
C28_StartAfterSuccess ==
    /\ \A i \in WireAt(Wrote("StartSession")) :
         \E j \in WireAt(Got("Success")) : j < i
    /\ (ReadMsgs # <<>> /\ ReadMsgs[1] = "AuthSecret") =>
         \A k \in WireAt(Wrote("PostAuthMessageResponse")) :
           \E j \in WireAt(Got("AuthSecret")) : j < k

----------------------------------------------------------------------------
(* The layout form_layout returned *)

LayoutDone == layout # <<>>

VisibleRows == (IF lock_target THEN 0 ELSE 1) + (IF Forced THEN 0 ELSE 1) + 1

\* the y of the rows that are shown, in the order session, username, password
VisibleYs ==
    SelectSeq(<<layout[1].session_y, layout[1].username_y, layout[1].password_y>>,
              LAMBDA v : v # NoRow)

(* C25: for every combination of row visibility the total height is        *)
(* rows*row_h + (rows-1)*gap for the number of visible rows; the visible   *)
(* rows lie in the order session, username, password from the form's y,    *)
(* row_h+gap apart; a hidden row has no y and adds neither offset nor gap; *)
(* the bottom edge of the password row is y + total height.                *)
C25_RowPlacement ==
    LayoutDone =>
      /\ layout[1].total_h = VisibleRows * row_h + (VisibleRows - 1) * gap_px
      /\ (layout[1].session_y = NoRow) <=> lock_target
      /\ (layout[1].username_y = NoRow) <=> Forced
      /\ layout[1].password_y # NoRow
      /\ Len(VisibleYs) = VisibleRows
      /\ \A i \in 1..Len(VisibleYs) :
           VisibleYs[i] = layout[1].y + (i - 1) * (row_h + gap_px)
      /\ layout[1].password_y + row_h = layout[1].y + layout[1].total_h

\* the session row hidden: username at the form's y, no gap left behind
C25_Witness ==
    /\ LayoutDone
    /\ lock_target /\ ~Forced
    /\ row_h = 2 /\ gap_px = 1
    /\ layout[1].y > 0
    /\ layout[1].username_y = layout[1].y
    /\ layout[1].password_y = layout[1].y + 3

\* clamp(v, lo, hi)
Clamp(v, lo, hi) == Max(lo, Min(v, hi))

(* C26, as claimed: for all screen sizes and configured widths the form    *)
(* width is clamp(configured width, 1, screen width - 64), x = (screen     *)
(* width - form width)/2 and y = (screen height - total height)/2 with     *)
(* integer division, and x + form width <= screen width.                   *)
C26_Original ==
    LayoutDone =>
      /\ layout[1].w = Clamp(dimensions[1], 1, screen_size[1] - 2 * MarginX)
      /\ layout[1].x = (screen_size[1] - layout[1].w) \div 2
      /\ layout[1].y = (screen_size[2] - layout[1].total_h) \div 2
      /\ layout[1].x + layout[1].w <= screen_size[1]

(* C26, amended: the form width is max(1, min(configured width, screen     *)
(* width - 64)); x = max(screen width - form width, 0)/2 and y =           *)
(* max(screen height - total height, 0)/2 with integer division, so y is 0 *)
(* when the form is taller than the screen; x + form width <= screen width *)
(* for every screen at least one pixel wide.                               *)
C26_Amended ==
    LayoutDone =>
      /\ layout[1].w = Max(1, Min(dimensions[1], screen_size[1] - 2 * MarginX))
      /\ layout[1].x = Max(screen_size[1] - layout[1].w, 0) \div 2
      /\ layout[1].y = Max(screen_size[2] - layout[1].total_h, 0) \div 2
      /\ screen_size[1] >= 1 => layout[1].x + layout[1].w <= screen_size[1]

\* a form wider than the screen allows and taller than the screen
C26_Witness ==
    /\ LayoutDone
    /\ screen_size[1] = 2 * MarginX + 3 /\ dimensions[1] = 4
    /\ layout[1].w = 3 /\ layout[1].x = 32
    /\ screen_size[2] < layout[1].total_h /\ layout[1].y = 0

----------------------------------------------------------------------------
(* The colour strings the claim accepts *)

\* hex_s without one leading '#', if it has one
DigitPart ==
    IF hex_s # <<>> /\ Head(hex_s) = "#" THEN Tail(hex_s) ELSE hex_s

AllHexDigits == \A i \in 1..Len(DigitPart) : DigitPart[i] \in HexDigits

(* C27, as claimed: from_hex accepts exactly the strings made of an        *)
(* optional single leading '#' followed by exactly 6 or exactly 8 hex      *)
(* digits; a digit part of another length fails with InvalidLength         *)
(* carrying that length; a digit part of length 6 or 8 with a character    *)
(* that is no hex digit fails with InvalidHex.                             *)
C27_FromHex ==
    hex_ret # HexNone =>
      /\ hex_ret.tag = "Ok" <=> (Len(DigitPart) \in {6, 8} /\ AllHexDigits)
      /\ Len(DigitPart) \notin {6, 8} => hex_ret = InvalidLength(Len(DigitPart))
      /\ (Len(DigitPart) \in {6, 8} /\ ~AllHexDigits) => hex_ret = InvalidHex

----------------------------------------------------------------------------
(* Views and the pixels they write *)

\* the pixel at offset at of pixel memory lies inside rectangle r of the buffer
InRect(at, r) ==
    /\ at >= 0
    /\ at < BufW * BufH
    /\ at % BufW >= r.x
    /\ at % BufW < r.x + r.w
    /\ at \div BufW >= r.y
    /\ at \div BufW < r.y + r.h

\* the view the latest subdimensions was called on
CalledOn == IF last_op.ok THEN views[Len(views) - 1] ELSE Current

(* C24: subdimensions(r) on a view R fails with OutOfBounds when           *)
(* x+w > R.width or y+h > R.height and makes no view; when r is inside R   *)
(* it succeeds and the view is exactly r, never a clamped rectangle; and   *)
(* every write through a view (memset, put, put_argb8888), at any nesting  *)
(* depth, writes only pixels inside the rectangle of every view it was     *)
(* taken from.                                                             *)
C24_Subview ==
    /\ last_op.name = "subdimensions" =>
         /\ last_op.ok <=>
              (last_op.x + last_op.w <= CalledOn.w /\ last_op.y + last_op.h <= CalledOn.h)
         /\ last_op.ok =>
              Current = Rect(CalledOn.x + last_op.x, CalledOn.y + last_op.y,
                             last_op.w, last_op.h)
    /\ \A k \in 1..Len(views) : \A at \in written : InRect(at, views[k])
    /\ ~last_op.ok => written = {}

\* a write through a view nested two deep, each view smaller than the one it
\* was taken from
C24_Witness ==
    /\ Len(views) = 3
    /\ views[3] # views[2]
    /\ views[2] # views[1]
    /\ last_op.name \in {"memset", "put", "put_argb8888"}
    /\ last_op.ok
    /\ written # {}

----------------------------------------------------------------------------
(* The display commit *)

\* how often event e is among the events of the latest input step
Times(e) == Cardinality({i \in 1..Len(events) : events[i] = e})

(* C31: an input step (one byte, or one escape sequence) pushes the        *)
(* display at most once, as the last thing it does, after every paint and  *)
(* every greetd call of the step, and only when a paint has asked for a    *)
(* commit since the last push: one of the step itself, or one before it    *)
(* that left should_refresh set.  A step that returns pushes nothing.      *)
C31_CommitOncePerStep ==
    [][pc = "read" =>
         /\ Times("commit")' <= 1
         /\ Times("commit")' = 1 =>
              /\ events'[Len(events')] = "commit"
              /\ pc' = "redraw"
              /\ should_refresh \/ Times("paint")' >= 1
              /\ ~should_refresh'
         /\ pc' = "done" => Times("commit")' = 0]_vars

\* a failed login: busy paint, login, error paint, cancel, and then the push
C31_Witness ==
    /\ events = <<"paint", "login", "paint", "cancel", "commit">>
    /\ LoginFailed
    /\ pc = "redraw"

(* C32, as claimed: whenever the loop is blocked on the read of the next   *)
(* input byte, no paint is left whose request for a commit is pending.     *)
C32_NoPendingCommit == pc = "read" => ~should_refresh

----------------------------------------------------------------------------
(* Termination *)

\* the loop was entered
InLoop == exit \notin {"no_targets", "startup"}

(* C33: on a stdin that delivers finitely many bytes and then closes, with *)
(* every paint and greetd call returning, the loop terminates; and it      *)
(* returns only on an abort byte, on a successful login, on a read that    *)
(* yields no byte, or on a failed paint.                                   *)
C33_Terminates ==
    /\ <>(pc = "done")
    /\ [](pc = "done" /\ InLoop =>
            \/ exit = "abort" /\ inp \in {<<CtrlC>>, <<CtrlD>>}
            \/ exit = "login_ok" /\ LoginSucceeded
            \/ exit = "stdin" /\ inp = <<NoByte>>
            \/ exit = "paint" /\ ~LoginSucceeded)

\* every byte of the stream was read and the next read found stdin closed
C33_Witness ==
    /\ pc = "done"
    /\ exit = "stdin"
    /\ stream_left = 0
    /\ password # <<>>

----------------------------------------------------------------------------
(* Requests and responses on the stream *)

Written == {i \in 1..Len(wire) : wire[i].dir = "write"}

(* C34, as claimed: when login returns, every request it has written has   *)
(* had exactly one response read, so that no response is left on the       *)
(* stream for a later call to read.  Stated for the calls that return      *)
(* without an IPC error.                                                   *)
C34_Pairing ==
    (greetd_pc = "returned" /\ login_ret \in {"Ok", "AuthFailed"}) =>
      Cardinality(Written) = Len(ReadMsgs)

----------------------------------------------------------------------------
(* When login is called *)

Logins == {i \in 1..Len(calls) : calls[i].op = "login"}

(* C35, as claimed: the identity passed to login (the forced username or   *)
(* the username buffer) is never empty, whichever keys led to              *)
(* EditingPassword.                                                        *)
C35_IdentityNotEmpty == \A i \in Logins : calls[i].identity # <<>>

\* the step read '\r' in EditingPassword with a password in the buffer
SubmitStep == inp' = <<Enter>> /\ mode = EditingPassword /\ password # <<>>

(* C36, as claimed: an input step calls login exactly once if it is a '\r' *)
(* read in EditingPassword with a non-empty password buffer, and not at    *)
(* all otherwise; the secret passed is the password buffer, never empty.   *)
C36_Original ==
    [][pc = "read" =>
         /\ LoginCount' = (IF SubmitStep THEN 1 ELSE 0)
         /\ \A i \in Logins' : calls'[i].secret = password /\ password # <<>>]_vars

(* C36, amended: an input step calls login exactly once if it is a '\r'    *)
(* read in EditingPassword with a non-empty password buffer and the busy   *)
(* repaint before the call succeeds, and not at all otherwise: when that   *)
(* repaint fails the loop returns without calling login.  The secret       *)
(* passed is the password buffer, never empty.                             *)
C36_Amended ==
    [][pc = "read" =>
         /\ LoginCount' =
              (IF SubmitStep /\ events' # <<"paint_err">> THEN 1 ELSE 0)
         /\ (SubmitStep /\ events' = <<"paint_err">>) =>
              pc' = "done" /\ exit' = "paint"
         /\ \A i \in Logins' : calls'[i].secret = password /\ password # <<>>]_vars

\* a login with a password of the greatest length, after the busy repaint
C36_Witness ==
    /\ LoginCount = 1
    /\ inp = <<Enter>>
    /\ events[1] = "paint"
    /\ Len(calls[1].secret) = MaxLen

----------------------------------------------------------------------------
(* What was rendered last, and what is there now *)

\* the last-rendered snapshot agrees with the state on every visible row
Fresh ==
    /\ ~Forced => last_username_len = StrLen(username)
    /\ last_password_len = StrLen(password)
    /\ ~lock_target => last_target_index = target_index
    /\ last_mode = mode

(* C37: whenever the loop comes to block on the read of the next byte, the *)
(* last-rendered snapshot equals the state on every visible row: the       *)
(* username length if no username is forced, the password length, the      *)
(* target index if the target is not locked, and the mode; and no input    *)
(* step changes the content of a buffer and leaves its length in bytes     *)
(* the same, so that comparing lengths misses no change.                   *)
C37_NoStaleRow ==
    [][/\ pc' = "read" => Fresh'
       /\ pc = "read" =>
            /\ username' # username => StrLen(username') # StrLen(username)
            /\ password' # password => StrLen(password') # StrLen(password)]_vars

\* the password row rendered for a typed byte that makes two bytes of UTF-8
C37_Witness ==
    /\ pc = "read"
    /\ password = <<233>>
    /\ last_password_len = 2
    /\ \E i \in 1..Len(painted) : painted[i].op = "password" /\ painted[i].blk = 2

----------------------------------------------------------------------------
(* What the screen shows of the password *)

(* C38, as claimed: two runs that read the same control bytes and          *)
(* passwords of the same number of ordinary bytes, whatever the values of  *)
(* the bytes, make the same paint calls, with the same rows cleared and    *)
(* the same number of mask characters, and the same commits.               *)
C38_MaskIndependent ==
    runs # <<>> =>
      /\ runs[1].painted = runs[2].painted
      /\ runs[1].commit = runs[2].commit

----------------------------------------------------------------------------
(* The rectangles the paint routines ask for *)

\* the rectangle lies inside the screen from left to right
InAcross(x, w) == x + w <= screen_size[1]

\* the rectangle lies inside the screen from top to bottom
InDown(y, h) == y + h <= screen_size[2]

(* C39, as claimed: for every screen size and configuration the form       *)
(* rectangle (x, y, w, total_h) and the rectangle (x, row_y, w, row_h) of  *)
(* every visible row lie fully inside the screen.                          *)
C39_Original ==
    LayoutDone =>
      /\ InAcross(layout[1].x, layout[1].w)
      /\ InDown(layout[1].y, layout[1].total_h)
      /\ \A i \in 1..Len(VisibleYs) : InDown(VisibleYs[i], row_h)

(* C39, amended: on a screen at least one pixel wide the form rectangle    *)
(* and every row rectangle lie inside the screen from left to right; they  *)
(* lie inside it from top to bottom when the total height is at most the   *)
(* screen height; when the total height is greater, the form starts at     *)
(* y = 0 and reaches below the screen, so that the request for it is out   *)
(* of bounds.                                                              *)
C39_Amended ==
    LayoutDone =>
      /\ screen_size[1] >= 1 => InAcross(layout[1].x, layout[1].w)
      /\ layout[1].total_h <= screen_size[2] =>
           /\ InDown(layout[1].y, layout[1].total_h)
           /\ \A i \in 1..Len(VisibleYs) : InDown(VisibleYs[i], row_h)
      /\ layout[1].total_h > screen_size[2] =>
           /\ layout[1].y = 0
           /\ ~InDown(layout[1].y, layout[1].total_h)

\* three rows that fill the height of the screen but for one pixel
C39_Witness ==
    /\ LayoutDone
    /\ ~lock_target /\ ~Forced
    /\ row_h = MaxRowH /\ gap_px = 1
    /\ screen_size[2] = layout[1].total_h + 1
    /\ layout[1].y = 0
    /\ InDown(layout[1].password_y, row_h)
    /\ InAcross(layout[1].x, layout[1].w)

----------------------------------------------------------------------------
(* Forward and backward *)

(* C40: for every configuration and every allowed mode m, cycling forward  *)
(* and then backward, or backward and then forward, leads back to m.       *)
C40_CycleInverse ==
    \A m \in AllowedModes :
      /\ prev_allowed_mode(next_allowed_mode(m)) = m
      /\ next_allowed_mode(prev_allowed_mode(m)) = m

\* all three modes allowed, and Tab has just led from EditingPassword round
\* to SelectingSession
C40_Witness ==
    /\ AllowedModes = Mode
    /\ inp = <<Tab>>
    /\ mode = SelectingSession
    /\ prev_allowed_mode(mode) = EditingPassword
    /\ next_allowed_mode(EditingPassword) = mode

====
